---- MODULE Spec2Model ----
(***************************************************************************)
(* A model of streamlit_app.py: the A/B-test dashboard.                    *)
(*                                                                         *)
(* A dataset (pandas DataFrame) is a record                                *)
(*   [isNone, columns, rows]                                               *)
(* with columns a sequence of column names and rows a sequence of rows,    *)
(* each row a sequence of cell values aligned with columns.  Cell values   *)
(* are strings; NULL is the null cell (None / NaN), True and False are the *)
(* two boolean cells.  None is Python's None where a column name is        *)
(* expected.                                                               *)
(***************************************************************************)
EXTENDS Integers, Sequences, FiniteSets

VARIABLES
    df,                 \* st.session_state.df
    event1_column,      \* st.session_state.event1_column
    event2_column,      \* st.session_state.event2_column
    assignment_column,  \* st.session_state.assignment_column
    all_columns,        \* the option list the sidebar was built from
    fetched,            \* what run_query returned in this script run
    conversion_rates,   \* result of calculate_conversion_rates (records)
    lift_drop,          \* result of calculate_conversion_rates (lift)
    chi2_result,        \* result of perform_chi_squared_test
    posterior_chart,    \* result of create_posterior_distribution_chart
    exception,          \* the exception that ended the script run, if any
    run                 \* which branch the last script run took

vars == <<df, event1_column, event2_column, assignment_column, all_columns,
          fetched, conversion_rates, lift_drop, chi2_result, posterior_chart,
          exception, run>>

-----------------------------------------------------------------------------
(* Bounds of the model *)

\* Largest number of rows of an enumerated query result.
MaxRows == 2

-----------------------------------------------------------------------------
(* Values *)

NULL == "NULL"
None == "None"
True == "True"
False == "False"

\* Labels an assignment cell may hold, and the one non-null event value.
Labels == {"A", "B", "C"}
EventValue == "x"

NoneDf == [isNone |-> TRUE, columns |-> <<>>, rows |-> <<>>]

MkDf(cols, rows) == [isNone |-> FALSE, columns |-> cols, rows |-> rows]

\* pd.DataFrame(rows) for rows = []: no rows and no columns.
EmptyDf == MkDf(<<>>, <<>>)

Range(s) == {s[i] : i \in 1..Len(s)}

-----------------------------------------------------------------------------
(* DataFrame primitives *)

\* c in df.columns
HasCol(d, c) == \E i \in 1..Len(d.columns) : d.columns[i] = c

ColIdx(d, c) == CHOOSE i \in 1..Len(d.columns) : d.columns[i] = c

\* df[c]: the column as a sequence over the rows
Col(d, c) == [r \in 1..Len(d.rows) |-> d.rows[r][ColIdx(d, c)]]

\* df.empty: some axis has length 0
IsEmpty(d) == Len(d.rows) = 0 \/ Len(d.columns) = 0

\* df[c] = vals: replaces the column when it exists, appends it otherwise
SetCol(d, c, vals) ==
    IF HasCol(d, c)
    THEN [d EXCEPT !.rows =
            [r \in 1..Len(d.rows) |->
                [d.rows[r] EXCEPT ![ColIdx(d, c)] = vals[r]]]]
    ELSE [d EXCEPT !.columns = Append(d.columns, c),
                   !.rows = [r \in 1..Len(d.rows) |-> Append(d.rows[r], vals[r])]]

\* ~df[event2_col].isnull()
NotNull(d, c) ==
    [r \in 1..Len(d.rows) |-> IF Col(d, c)[r] = NULL THEN False ELSE True]

\* df["converted"] = ~df[event2_col].isnull()
DeriveConverted(d, event2_col) == SetCol(d, "converted", NotNull(d, event2_col))

\* The order pandas sorts group keys in: booleans False < True, strings by
\* code point.
SortOrder == <<False, True, "A", "B", "C", "x">>

SortRank(v) == CHOOSE i \in 1..Len(SortOrder) : SortOrder[i] = v

RECURSIVE SortedSeq(_)
SortedSeq(S) ==
    IF S = {} THEN <<>>
    ELSE LET m == CHOOSE x \in S : \A y \in S : SortRank(x) <= SortRank(y)
         IN <<m>> \o SortedSeq(S \ {m})

\* Rows of d whose cell in column c is v
RowsWhere(d, c, v) == {r \in 1..Len(d.rows) : Col(d, c)[r] = v}

-----------------------------------------------------------------------------
(* calculate_conversion_rates *)

NoRecords == [isNone |-> TRUE, records |-> <<>>]
NoLift == [kind |-> "None", num |-> 0, den |-> 1]

\* The guard without its event1_col test (event1_col is used nowhere else).
CalcSkipsNoEvent1(d, event1_col, event2_col, assignment_col) ==
    \/ IsEmpty(d)
    \/ ~HasCol(d, event2_col)
    \/ ~HasCol(d, assignment_col)

\* The guard of calculate_conversion_rates: TRUE when it returns None, None.
CalcSkips(d, event1_col, event2_col, assignment_col) ==
    \/ IsEmpty(d)
    \/ ~HasCol(d, event1_col)
    \/ ~HasCol(d, event2_col)
    \/ ~HasCol(d, assignment_col)

\* The row at which value v first occurs in column c, and the values of a
\* set ordered by it.
FirstSeen(d, c, v) == CHOOSE r \in RowsWhere(d, c, v) :
                          \A q \in RowsWhere(d, c, v) : r <= q

RECURSIVE ByFirstSeen(_, _, _)
ByFirstSeen(d, c, S) ==
    IF S = {} THEN <<>>
    ELSE LET m == CHOOSE x \in S :
                      \A y \in S : FirstSeen(d, c, x) <= FirstSeen(d, c, y)
         IN <<m>> \o ByFirstSeen(d, c, S \ {m})

\* The group keys as groupby(c, sort=False) would give them.
GroupKeysUnsorted(d, c) == ByFirstSeen(d, c, Range(Col(d, c)) \ {NULL})

\* The group keys of df.groupby(c): the distinct non-null values, sorted.
GroupKeys(d, c) == SortedSeq(Range(Col(d, c)) \ {NULL})

\* An aggregate whose count is taken over the whole column, not the group.
GroupRecordAllRows(d, c, k) ==
    [group |-> k,
     count |-> Cardinality({r \in 1..Len(d.rows) : Col(d, "converted")[r] # NULL}),
     sum   |-> Cardinality(RowsWhere(d, c, k) \cap RowsWhere(d, "converted", True))]

\* One aggregated row of groupby(c)["converted"].agg(["count", "sum"]):
\* count is the number of non-null "converted" cells of the group, sum the
\* number of True ones.
GroupRecord(d, c, k) ==
    [group |-> k,
     count |-> Cardinality({r \in RowsWhere(d, c, k) : Col(d, "converted")[r] # NULL}),
     sum   |-> Cardinality(RowsWhere(d, c, k) \cap RowsWhere(d, "converted", True))]

\* The aggregated table; conversion_rate = sum / count is carried as the
\* pair (sum, count) of each record.
ConversionTable(d, c) ==
    LET keys == GroupKeys(d, c)
    IN [i \in 1..Len(keys) |-> GroupRecord(d, c, keys[i])]

\* (variant_b_rate - variant_a_rate) / variant_a_rate on numpy float64
\* rates ra = a.sum/a.count, rb = b.sum/b.count: dividing by a zero rate
\* gives inf (or nan for 0/0) with a warning, not an exception.
LiftOf(a, b) ==
    IF a.sum = 0
    THEN IF b.sum = 0 THEN [kind |-> "nan", num |-> 0, den |-> 1]
                      ELSE [kind |-> "inf", num |-> 0, den |-> 1]
    ELSE [kind |-> "finite",
          num |-> b.sum * a.count - a.sum * b.count,
          den |-> a.sum * b.count]

RecordFor(recs, k) == recs[CHOOSE i \in 1..Len(recs) : recs[i].group = k]

LiftDrop(recs) ==
    LET groups == {recs[i].group : i \in 1..Len(recs)}
    IN IF Cardinality(groups) = 2
       THEN IF "A" \in groups /\ "B" \in groups
            THEN LiftOf(RecordFor(recs, "A"), RecordFor(recs, "B"))
            ELSE NoLift
       ELSE NoLift

\* The whole function: the dataset as it leaves it, and the two results.
calculate_conversion_rates(d, event1_col, event2_col, assignment_col) ==
    IF CalcSkips(d, event1_col, event2_col, assignment_col)
    THEN [df |-> d, conversion_rates |-> NoRecords, lift_drop |-> NoLift]
    ELSE LET d1 == DeriveConverted(d, event2_col)
             recs == ConversionTable(d1, assignment_col)
         IN [df |-> d1,
             conversion_rates |-> [isNone |-> FALSE, records |-> recs],
             lift_drop |-> LiftDrop(recs)]

-----------------------------------------------------------------------------
(* perform_chi_squared_test *)

NoChi2 == [kind |-> "None", dof |-> 0]

\* The guard shared by perform_chi_squared_test and
\* create_posterior_distribution_chart.
LacksColumns(d, assignment_col) ==
    d.isNone \/ ~HasCol(d, assignment_col) \/ ~HasCol(d, "converted")

\* pd.crosstab(df[assignment_col], df["converted"]): the rows that are non-null
\* in both columns, counted per (assignment value, converted value); only
\* values that occur label a row or a column of the table.
CrossRows(d, c) ==
    {r \in 1..Len(d.rows) : Col(d, c)[r] # NULL /\ Col(d, "converted")[r] # NULL}

ContingencyTable(d, c) ==
    LET rs == CrossRows(d, c)
        rowKeys == {Col(d, c)[r] : r \in rs}
        colKeys == {Col(d, "converted")[r] : r \in rs}
    IN [index |-> rowKeys, columns |-> colKeys,
        cell |-> [k \in rowKeys \X colKeys |->
                    Cardinality({r \in rs : /\ Col(d, c)[r] = k[1]
                                            /\ Col(d, "converted")[r] = k[2]})]]

\* The degrees of freedom without the "+ ndim - 1" term.
DofNoCorrection(t) ==
    Cardinality(t.index) * Cardinality(t.columns)
      - (Cardinality(t.index) + Cardinality(t.columns))

\* chi2_contingency's dof = observed.size - sum(observed.shape) + ndim - 1
Dof(t) ==
    Cardinality(t.index) * Cardinality(t.columns)
      - (Cardinality(t.index) + Cardinality(t.columns)) + 2 - 1

\* chi2_contingency raises ValueError on a table of size 0.
Chi2Raises(d, assignment_col) ==
    /\ ~LacksColumns(d, assignment_col)
    /\ ContingencyTable(d, assignment_col).index = {}

perform_chi_squared_test(d, assignment_col) ==
    IF LacksColumns(d, assignment_col)
    THEN NoChi2
    ELSE [kind |-> "result", dof |-> Dof(ContingencyTable(d, assignment_col))]

-----------------------------------------------------------------------------
(* create_posterior_distribution_chart *)

\* np.linspace(0, 1, 1000)
GridPoints == 1000
Grid == [lo |-> 0, hi |-> 1, points |-> GridPoints]

NoChart == [isNone |-> TRUE, curves |-> <<>>]

\* df[assignment_col].unique(): the distinct values, null included, in the
\* order they first occur.
Unique(d, c) == ByFirstSeen(d, c, Range(Col(d, c)))

\* The parameters with the prior's pseudo-count left out of b.
BetaParamsNoPrior(d, c, variant) ==
    LET variant_data == RowsWhere(d, c, variant)
        successes == Cardinality(variant_data \cap RowsWhere(d, "converted", True))
        failures == Cardinality(variant_data) - successes
    IN [variant |-> variant, a |-> successes + 1, b |-> failures, grid |-> Grid]

\* successes, failures and the Beta parameters of one variant
BetaParams(d, c, variant) ==
    LET variant_data == RowsWhere(d, c, variant)
        successes == Cardinality(variant_data \cap RowsWhere(d, "converted", True))
        failures == Cardinality(variant_data) - successes
    IN [variant |-> variant, a |-> successes + 1, b |-> failures + 1, grid |-> Grid]

create_posterior_distribution_chart(d, assignment_col) ==
    IF LacksColumns(d, assignment_col)
    THEN NoChart
    ELSE LET variants == Unique(d, assignment_col)
         IN IF Len(variants) # 2 \/ "A" \notin Range(variants)
                                 \/ "B" \notin Range(variants)
            THEN NoChart
            ELSE [isNone |-> FALSE,
                  curves |-> [i \in 1..Len(variants) |->
                                BetaParams(d, assignment_col, variants[i])]]

-----------------------------------------------------------------------------
(* The Run Query handler, from the point where run_query has returned *)

NoException == "None"

Results(d, cr, lift, chi2, chart, exc) ==
    [df |-> d, conversion_rates |-> cr, lift_drop |-> lift,
     chi2_result |-> chi2, posterior_chart |-> chart, exception |-> exc]

\* "if st.session_state.df is not None:" and everything under it.  The
\* dataset is enriched in place by calculate_conversion_rates and again by
\* the handler; an exception raised by chi2_contingency ends the script run
\* before the posterior chart is built.
RunQueryHandler(d, event1_col, event2_col, assignment_col) ==
    IF d.isNone
    THEN Results(d, NoRecords, NoLift, NoChi2, NoChart, NoException)
    ELSE LET c  == calculate_conversion_rates(d, event1_col, event2_col,
                                              assignment_col)
             d2 == IF ~c.conversion_rates.isNone
                   THEN DeriveConverted(c.df, event2_col)
                   ELSE c.df
         IN IF Chi2Raises(d2, assignment_col)
            THEN Results(d2, c.conversion_rates, c.lift_drop, NoChi2, NoChart,
                         "ValueError")
            ELSE Results(d2, c.conversion_rates, c.lift_drop,
                         perform_chi_squared_test(d2, assignment_col),
                         create_posterior_distribution_chart(d2, assignment_col),
                         NoException)

-----------------------------------------------------------------------------
(* Query results *)

\* A warehouse table with two event columns and an assignment column, and
\* one holding its own boolean column named "converted".
EventColumns == <<"event1", "event2", "assignment">>
OwnConvertedColumns == <<"assignment", "converted">>

EventRows == {<<EventValue, e, g>> : e \in {NULL, EventValue},
                                     g \in Labels \cup {NULL}}
OwnConvertedRows == {<<g, c>> : g \in Labels \cup {NULL}, c \in {True, False}}

SeqsUpTo(S, n) == UNION {[1..k -> S] : k \in 1..n}

\* What run_query returns when the query succeeds: pd.DataFrame(rows).
Datasets(n) ==
    {EmptyDf}
      \cup {MkDf(EventColumns, rs) : rs \in SeqsUpTo(EventRows, n)}
      \cup {MkDf(OwnConvertedColumns, rs) : rs \in SeqsUpTo(OwnConvertedRows, n)}

\* The scenario of the conversion example: assignment = [A, A, B, B],
\* event2 = [null, x, null, y].
ScenarioDf ==
    MkDf(EventColumns, << <<EventValue, NULL, "A">>, <<EventValue, EventValue, "A">>,
                          <<EventValue, NULL, "B">>, <<EventValue, EventValue, "B">> >>)

\* Three-row tables: rows assigned [B, A, B]; three groups; a null
\* assignment beside A and B.
OrderDf ==
    MkDf(EventColumns, << <<EventValue, EventValue, "B">>, <<EventValue, NULL, "A">>,
                          <<EventValue, NULL, "B">> >>)
ThreeGroupsDf ==
    MkDf(EventColumns, << <<EventValue, EventValue, "A">>, <<EventValue, NULL, "B">>,
                          <<EventValue, EventValue, "C">> >>)
NullRowDf ==
    MkDf(EventColumns, << <<EventValue, EventValue, "A">>, <<EventValue, NULL, "B">>,
                          <<EventValue, EventValue, NULL>> >>)

Scenarios == {ScenarioDf, OrderDf, ThreeGroupsDf, NullRowDf}

\* run_query: a dataset, or None when the query raised.
QueryResults == Datasets(MaxRows) \cup Scenarios \cup {NoneDf}

-----------------------------------------------------------------------------
(* The sidebar *)

\* all_columns: the columns of the session dataset, [] when there is none.
SidebarColumns(session_df) ==
    IF session_df.isNone THEN <<>> ELSE session_df.columns

\* What st.selectbox(label, options, ...) can return: one of the options,
\* None when there are none.
Selectable(options) == IF options = <<>> THEN {None} ELSE Range(options)

\* The option lists a sidebar can have been built from: no dataset, a
\* fetched dataset, or one already enriched with "converted".
OptionLists ==
    {<<>>, EventColumns, Append(EventColumns, "converted"), OwnConvertedColumns}

-----------------------------------------------------------------------------
(* One script run from the return of run_query on *)

Init ==
    /\ fetched \in QueryResults
    /\ df = fetched
    /\ all_columns \in OptionLists
    /\ event1_column \in Selectable(all_columns)
    /\ event2_column \in Selectable(all_columns)
    /\ assignment_column \in Selectable(all_columns)
    /\ conversion_rates = NoRecords
    /\ lift_drop = NoLift
    /\ chi2_result = NoChi2
    /\ posterior_chart = NoChart
    /\ exception = NoException
    /\ run = "fetched"

Analyse ==
    /\ run = "fetched"
    /\ \E out \in {RunQueryHandler(df, event1_column, event2_column,
                                   assignment_column)} :
          /\ df' = out.df
          /\ conversion_rates' = out.conversion_rates
          /\ lift_drop' = out.lift_drop
          /\ chi2_result' = out.chi2_result
          /\ posterior_chart' = out.posterior_chart
          /\ exception' = out.exception
    /\ run' = IF fetched.isNone THEN "query_failed" ELSE "analysed"
    /\ UNCHANGED <<event1_column, event2_column, assignment_column,
                   all_columns, fetched>>

Next == Analyse

Spec == Init /\ [][Next]_vars

-----------------------------------------------------------------------------
(* A session: script reruns *)

\* The tables the queries of a session return.
OnlyADf == MkDf(EventColumns, << <<EventValue, EventValue, "A">> >>)
NullAssignmentDf == MkDf(EventColumns, << <<EventValue, EventValue, NULL>> >>)
OwnConvertedDf == MkDf(OwnConvertedColumns, << <<"A", False>>, <<"B", True>> >>)

Warehouse == {EmptyDf, ScenarioDf, OnlyADf, NullAssignmentDf, OwnConvertedDf}

\* An assignment that keeps the previous dataset when the query failed.
SessionDfKeptOnFailure(current, returned) ==
    IF returned.isNone THEN current ELSE returned

\* st.session_state.df = run_query(query_text)
SessionDfAfterQuery(current, returned) == returned

\* The session state before the first script run.
SessionInit ==
    /\ df = NoneDf
    /\ event1_column = None
    /\ event2_column = None
    /\ assignment_column = None
    /\ all_columns = <<>>
    /\ fetched = NoneDf
    /\ conversion_rates = NoRecords
    /\ lift_drop = NoLift
    /\ chi2_result = NoChi2
    /\ posterior_chart = NoChart
    /\ exception = NoException
    /\ run = "start"

\* The top of every script run: the sidebar is built from the dataset the
\* session holds at that point and the three selections are stored.
Sidebar ==
    /\ all_columns' = SidebarColumns(df)
    /\ event1_column' \in Selectable(all_columns')
    /\ event2_column' \in Selectable(all_columns')
    /\ assignment_column' \in Selectable(all_columns')

NothingAnalysed ==
    /\ fetched' = NoneDf
    /\ conversion_rates' = NoRecords
    /\ lift_drop' = NoLift
    /\ chi2_result' = NoChi2
    /\ posterior_chart' = NoChart
    /\ exception' = NoException
    /\ UNCHANGED df

\* A script run in which the button was not clicked.
Rerun ==
    /\ Sidebar
    /\ NothingAnalysed
    /\ run' = "idle"

\* Run Query clicked with an empty text area.
ClickWithoutQuery ==
    /\ Sidebar
    /\ NothingAnalysed
    /\ run' = "warning"

\* Run Query clicked with a query: the sidebar, run_query, then the handler.
ClickRunQuery ==
    /\ Sidebar
    /\ \E returned \in Warehouse \cup {NoneDf} :
         /\ fetched' = returned
         /\ \E out \in {RunQueryHandler(SessionDfAfterQuery(df, returned),
                                        event1_column', event2_column',
                                        assignment_column')} :
              /\ df' = out.df
              /\ conversion_rates' = out.conversion_rates
              /\ lift_drop' = out.lift_drop
              /\ chi2_result' = out.chi2_result
              /\ posterior_chart' = out.posterior_chart
              /\ exception' = out.exception
         /\ run' = IF returned.isNone THEN "query_failed" ELSE "analysed"

SessionNext == Rerun \/ ClickWithoutQuery \/ ClickRunQuery

SessionSpec == SessionInit /\ [][SessionNext]_vars

-----------------------------------------------------------------------------
(* Properties *)

Analysed == run = "analysed"

ColumnsOf(d) == Range(d.columns)

\* The three selections name columns of the fetched dataset, which has rows.
Selected ==
    /\ ~IsEmpty(fetched)
    /\ {event1_column, event2_column, assignment_column} \subseteq ColumnsOf(fetched)

\* The values of the fetched dataset's assignment column, null included.
AssignmentValues == Range(Col(fetched, assignment_column))

Groups == {conversion_rates.records[i].group :
             i \in 1..Len(conversion_rates.records)}

AllAbsent ==
    /\ conversion_rates = NoRecords
    /\ lift_drop = NoLift
    /\ chi2_result = NoChi2
    /\ posterior_chart = NoChart

\* C1: whenever the assignment groups are exactly A and B and group A has no
\* converted row (variantA_rate = 0), the lift returned by
\* calculate_conversion_rates is absent: never infinite, never NaN.
C1_NoInfiniteLift ==
    (/\ Analysed
     /\ Selected
     /\ AssignmentValues = {"A", "B"}
     /\ \A r \in 1..Len(fetched.rows) :
            Col(fetched, assignment_column)[r] = "A"
                => Col(fetched, event2_column)[r] = NULL)
        => lift_drop = NoLift

\* C2: a lift value or a posterior chart is produced only when the set of
\* values of the assignment column over all rows, null included, is exactly
\* {A, B}; a dataset holding group A alone gives records for A only, no lift
\* and no posterior.
C2_TwoArmGating ==
    Analysed =>
        /\ (lift_drop # NoLift \/ ~posterior_chart.isNone)
              => /\ assignment_column \in ColumnsOf(fetched)
                 /\ AssignmentValues = {"A", "B"}
        /\ (Selected /\ AssignmentValues = {"A"})
              => /\ Groups = {"A"}
                 /\ lift_drop = NoLift
                 /\ posterior_chart = NoChart

\* C3: the three analyses, called in the handler's order, never raise, and on
\* an empty dataset all three results are absent.
C3_NoExceptionPath ==
    /\ exception = NoException
    /\ (Analysed /\ IsEmpty(fetched)) => AllAbsent

C5_OriginalColumnsPreserved ==
    Analysed =>
        /\ \A c \in ColumnsOf(fetched) :
              c \in ColumnsOf(df) /\ Col(df, c) = Col(fetched, c)
        /\ ColumnsOf(df) \subseteq ColumnsOf(fetched) \cup {"converted"}

\* C6: calculate_conversion_rates returns (None, None) whenever the dataset
\* is empty or one of the three selections is no column of it; the
\* chi-squared test and the posterior chart are absent whenever the dataset
\* is None, the assignment selection is no column, or "converted" is
\* missing -- in particular when the conversion analysis was skipped on a
\* dataset without its own "converted" column.
C6_FailSoft ==
    /\ Analysed =>
         /\ (\/ IsEmpty(fetched)
             \/ event1_column \notin ColumnsOf(fetched)
             \/ event2_column \notin ColumnsOf(fetched)
             \/ assignment_column \notin ColumnsOf(fetched))
               => conversion_rates = NoRecords /\ lift_drop = NoLift
         /\ (\/ assignment_column \notin ColumnsOf(df)
             \/ "converted" \notin ColumnsOf(df))
               => chi2_result = NoChi2 /\ posterior_chart = NoChart
         /\ (conversion_rates.isNone /\ "converted" \notin ColumnsOf(fetched))
               => chi2_result = NoChi2 /\ posterior_chart = NoChart
    /\ (run = "query_failed" /\ df.isNone) => AllAbsent

\* Only the event1 selection is no column of a dataset that has rows and no
\* "converted" column of its own: every analysis is absent.
C6_Witness ==
    /\ Analysed
    /\ ~IsEmpty(fetched)
    /\ event1_column \notin ColumnsOf(fetched)
    /\ event2_column \in ColumnsOf(fetched)
    /\ assignment_column \in ColumnsOf(fetched)
    /\ "converted" \notin ColumnsOf(fetched)
    /\ AllAbsent

\* Sum of the count field over a sequence of records
RECURSIVE SumCounts(_)
SumCounts(recs) ==
    IF recs = <<>> THEN 0 ELSE Head(recs).count + SumCounts(Tail(recs))

\* C7: for a non-empty dataset whose assignment column holds only A and B
\* (and valid selections), records are returned, their counts add up to the
\* number of rows, every count is positive, every sum is the number of rows
\* of the group with a non-null event2 value, and 0 <= sum <= count; the
\* scenario [A,A,B,B] / [null,x,null,y] gives A{2,1}, B{2,1} and lift 0.
C7_RecordInvariants ==
    /\ (Analysed /\ Selected /\ AssignmentValues \subseteq {"A", "B"}) =>
         /\ ~conversion_rates.isNone
         /\ SumCounts(conversion_rates.records) = Len(fetched.rows)
         /\ \A i \in 1..Len(conversion_rates.records) :
              LET rec == conversion_rates.records[i]
              IN /\ rec.count > 0
                 /\ rec.sum = Cardinality(
                      {r \in 1..Len(fetched.rows) :
                         /\ Col(fetched, assignment_column)[r] = rec.group
                         /\ Col(fetched, event2_column)[r] # NULL})
                 /\ 0 <= rec.sum
                 /\ rec.sum <= rec.count
    /\ (/\ Analysed
        /\ fetched = ScenarioDf
        /\ event1_column = "event1"
        /\ event2_column = "event2"
        /\ assignment_column = "assignment") =>
         /\ conversion_rates.records =
              << [group |-> "A", count |-> 2, sum |-> 1],
                 [group |-> "B", count |-> 2, sum |-> 1] >>
         /\ lift_drop.kind = "finite"
         /\ lift_drop.num = 0

\* The scenario has been analysed.
C7_Witness ==
    /\ Analysed
    /\ fetched = ScenarioDf
    /\ Selected
    /\ assignment_column = "assignment"
    /\ event2_column = "event2"
    /\ Len(conversion_rates.records) = 2
    /\ lift_drop.kind = "finite"

\* C8: whenever the posterior chart is produced it has one curve for A and
\* one for B, each with a = converted rows of the group + 1 and
\* b = (group size - converted rows) + 1, so a >= 1, b >= 1 and
\* a + b = group size + 2, both on the same grid over [0, 1].
C8_BetaParameters ==
    (Analysed /\ ~posterior_chart.isNone) =>
        /\ Len(posterior_chart.curves) = 2
        /\ {posterior_chart.curves[i].variant : i \in 1..2} = {"A", "B"}
        /\ posterior_chart.curves[1].grid = posterior_chart.curves[2].grid
        /\ \A i \in 1..2 :
             LET curve == posterior_chart.curves[i]
                 members == {r \in 1..Len(df.rows) :
                               Col(df, assignment_column)[r] = curve.variant}
                 hits == {r \in members : Col(df, "converted")[r] = True}
             IN /\ curve.a = Cardinality(hits) + 1
                /\ curve.b = (Cardinality(members) - Cardinality(hits)) + 1
                /\ curve.a >= 1
                /\ curve.b >= 1
                /\ curve.a + curve.b = Cardinality(members) + 2
                /\ curve.grid.lo = 0
                /\ curve.grid.hi = 1

\* The scenario's chart: one converted and one unconverted row per group.
C8_Witness ==
    /\ Analysed
    /\ fetched = ScenarioDf
    /\ ~posterior_chart.isNone
    /\ \A i \in 1..2 : posterior_chart.curves[i].a = 2
                       /\ posterior_chart.curves[i].b = 2

\* C9 as claimed: one record per distinct (non-null) value of the assignment
\* column, in the order in which the values first occur in the rows (for an
\* assignment column other than the derived "converted" column).
C9_FirstOccurrenceOrder ==
    (Analysed /\ ~conversion_rates.isNone /\ assignment_column # "converted") =>
        LET col == Col(fetched, assignment_column)
            first(v) == CHOOSE r \in 1..Len(col) :
                           col[r] = v /\ \A q \in 1..(r - 1) : col[q] # v
            recs == conversion_rates.records
        IN /\ Groups = Range(col) \ {NULL}
           /\ Len(recs) = Cardinality(Groups)
           /\ \A i, j \in 1..Len(recs) :
                 i < j => first(recs[i].group) < first(recs[j].group)

\* C9 as amended: one record per distinct non-null value of the assignment
\* column (read once "converted" has been derived), in ascending order of
\* the value.
C9_SortedOrder ==
    (Analysed /\ ~conversion_rates.isNone) =>
        LET col == Col(DeriveConverted(fetched, event2_column), assignment_column)
            recs == conversion_rates.records
        IN /\ Groups = Range(col) \ {NULL}
           /\ Len(recs) = Cardinality(Groups)
           /\ \A i, j \in 1..Len(recs) :
                 i < j => SortRank(recs[i].group) < SortRank(recs[j].group)

\* Rows assigned [B, A, B]: the record for A comes first.
C9_Witness ==
    /\ Analysed
    /\ fetched = OrderDf
    /\ assignment_column = "assignment"
    /\ ~conversion_rates.isNone
    /\ conversion_rates.records[1].group = "A"
    /\ conversion_rates.records[2].group = "B"

\* C10: in every script run the three selections are drawn from the columns
\* of the dataset the session held before that run's query executed; when
\* that dataset was None, a Run Query leaves all three selections unset and
\* all analyses absent; a run whose query fails leaves the session dataset
\* None (so the next run starts from that state again).
C10_Step ==
    /\ all_columns' = (IF df.isNone THEN <<>> ELSE df.columns)
    /\ \A sel \in {event1_column', event2_column', assignment_column'} :
          IF df.isNone \/ df.columns = <<>>
          THEN sel = None
          ELSE sel \in ColumnsOf(df)
    /\ (df.isNone /\ run' \in {"analysed", "query_failed"})
          => /\ event1_column' = None
             /\ event2_column' = None
             /\ assignment_column' = None
             /\ AllAbsent'
    /\ run' = "query_failed" => df'.isNone /\ fetched'.isNone

C10_SelectionsFromPreviousDataset == [][C10_Step]_vars

\* The first Run Query of a session: a dataset with rows was fetched, the
\* selections are unset and nothing was computed.
C10_Witness ==
    /\ Analysed
    /\ all_columns = <<>>
    /\ ~IsEmpty(df)
    /\ event1_column = None
    /\ event2_column = None
    /\ assignment_column = None
    /\ AllAbsent

====
